---------------------------- MODULE Spec2Model ----------------------------
(***************************************************************************)
(* A model of whatsapp-flask-server.py: the in-memory session map, the     *)
(* conversation state machine process_message, the payload helpers and the *)
(* webhook that feeds one inbound message to them.                         *)
(*                                                                         *)
(* Python strings typed by the user are sequences of one-character         *)
(* strings, so that str.split, str.isdigit, int and " ".join are computed. *)
(* String literals of the program (button ids, prompts) are TLA+ strings.  *)
(* An optional value (None or a value) is a record [some, v].              *)
(***************************************************************************)
EXTENDS Integers, Sequences, FiniteSets, TLC

\* ------------------------------------------------------------- bounds
\* The wall clock (datetime.now()) takes the values 0..MaxClock.
MaxClock == 1

\* ------------------------------------------------------ optional values
NoStr == [some |-> FALSE, v |-> <<>>]
SomeStr(s) == [some |-> TRUE, v |-> s]
NoId == [some |-> FALSE, v |-> ""]
SomeId(s) == [some |-> TRUE, v |-> s]
NoInt == [some |-> FALSE, v |-> 0]
SomeInt(n) == [some |-> TRUE, v |-> n]

\* Python truthiness of an optional string: None and "" are falsy.
Truthy(t) == t.some /\ t.v # <<>>

\* str(x) inside an f-string: None prints as the word None.
FmtStr(t) == IF t.some THEN t.v ELSE <<"None">>

\* ------------------------------------------------------- Python strings
Whitespace == {" "}
Digits == {"0", "1", "2", "3", "4", "5", "6", "7", "8", "9"}
\* The one-character string "sup2" stands for the superscript two (U+00B2):
\* str.isdigit() accepts it and int() raises ValueError on it.
UnicodeDigits == {"sup2"}

DigitVal(c) ==
  CASE c = "0" -> 0 [] c = "1" -> 1 [] c = "2" -> 2 [] c = "3" -> 3
    [] c = "4" -> 4 [] c = "5" -> 5 [] c = "6" -> 6 [] c = "7" -> 7
    [] c = "8" -> 8 [] c = "9" -> 9

\* str.isdigit(): non-empty and every character a digit.
IsDigit(s) == s # <<>> /\ \A i \in 1..Len(s) : s[i] \in Digits \cup UnicodeDigits

\* Whether int(s) returns (rather than raising ValueError) for an isdigit() string.
IntOk(s) == s # <<>> /\ \A i \in 1..Len(s) : s[i] \in Digits

\* int(s) for a string of digits.
RECURSIVE ToInt(_)
ToInt(s) ==
  IF s = <<>> THEN 0
  ELSE 10 * ToInt(SubSeq(s, 1, Len(s) - 1)) + DigitVal(s[Len(s)])

\* str.split(): the maximal runs of non-whitespace characters, in order.
RECURSIVE SplitFrom(_, _, _)
SplitFrom(s, i, cur) ==
  IF i > Len(s) THEN (IF cur = <<>> THEN <<>> ELSE <<cur>>)
  ELSE IF s[i] \in Whitespace
       THEN (IF cur = <<>> THEN <<>> ELSE <<cur>>) \o SplitFrom(s, i + 1, <<>>)
       ELSE SplitFrom(s, i + 1, Append(cur, s[i]))

Split(s) == SplitFrom(s, 1, <<>>)

\* " ".join(parts)
RECURSIVE Join(_)
Join(parts) ==
  IF parts = <<>> THEN <<>>
  ELSE IF Len(parts) = 1 THEN parts[1]
  ELSE parts[1] \o <<" ">> \o Join(Tail(parts))

\* --------------------------------------------------------------- dicts
\* A dict is a function whose domain is the set of its keys.
Get(d, k, default) == IF k \in DOMAIN d THEN d[k] ELSE default
Put(d, k, val) == [x \in (DOMAIN d) \cup {k} |-> IF x = k THEN val ELSE d[x]]
Pop(d, k) == [x \in (DOMAIN d) \ {k} |-> d[x]]
EmptyDict == [x \in {} |-> 0]


\* ------------------------------------------------------------ responses
\* The text of a prompt: the literal it is built from and the values the
\* f-string interpolates into it.
Body(msg, desc, product, quantity) ==
  [msg |-> msg, desc |-> desc, product |-> product, quantity |-> quantity]

Plain(msg) == Body(msg, "", <<>>, NoInt)

TextRet(body) == [type |-> "text", message_text |-> body]

ButtonRet(body, buttons, header) ==
  [type |-> "button", body_text |-> body, buttons |-> buttons, header_text |-> header]

ListRet(header, body, button, sections) ==
  [type |-> "list", header_text |-> header, body_text |-> body,
   button_text |-> button, sections |-> sections]

ContactRet(name, phone, prefix) ==
  [type |-> "contact", formatted_name |-> name, phone_wa_id |-> phone, prefix |-> prefix]

NoRet == [type |-> "none"]

menu_buttons ==
  << [id |-> "menu_product_info", title |-> "Product Information"],
     [id |-> "menu_support", title |-> "Customer Support"],
     [id |-> "menu_order", title |-> "Place an Order"],
     [id |-> "menu_contact", title |-> "Send Contact Card"] >>

followup_buttons ==
  << [id |-> "prod_order_yes", title |-> "Place Order"],
     [id |-> "prod_order_no", title |-> "Back to Menu"] >>

product_sections ==
  << [title |-> "Our Products",
      rows |-> << [id |-> "prod_A", title |-> "Model A", description |-> "High-end model - $299"],
                  [id |-> "prod_B", title |-> "Model B", description |-> "Mid-range model - $199"],
                  [id |-> "prod_C", title |-> "Model C", description |-> "Budget model - $99"] >>] >>

products ==
  [k \in {"prod_A", "prod_B", "prod_C"} |->
     CASE k = "prod_A" -> "Model A - $299"
       [] k = "prod_B" -> "Model B - $199"
       [] k = "prod_C" -> "Model C - $99"]

\* Literals the program substitutes for a missing value.
TheSelectedProduct == <<"the selected product">>
UnknownProduct == <<"Unknown Product">>

\* ------------------------------------------------------ process_message
\* What one branch of process_message does: the session dict after its
\* writes, the value returned, the "Order Placed" records logged, and whether
\* an exception escaped instead of a return.
Outcome(session, ret, log) ==
  [session |-> session, ret |-> ret, log |-> log, raised |-> FALSE]

Raise(session) ==
  [session |-> session, ret |-> NoRet, log |-> <<>>, raised |-> TRUE]

SetState(session, st) == [session EXCEPT !.conversation_state = st]
SetCtx(session, k, val) == [session EXCEPT !.context = Put(@, k, val)]

\* A variant of NewSession that starts the conversation at the menu.
NewSession_AtMenu(id, now) ==
  [session_id |-> id, created_at |-> now, last_interaction |-> now,
   conversation_state |-> "menu", context |-> EmptyDict]

NewSession(id, now) ==
  [session_id |-> id, created_at |-> now, last_interaction |-> now,
   conversation_state |-> "greeting", context |-> EmptyDict]

Welcome == TextRet(Plain("Hello! Welcome to our service. How can I help you today?"))

reply_id_of(interactive_reply) ==
  IF interactive_reply.some THEN interactive_reply.v.id ELSE NoId

reply_title_of(interactive_reply) ==
  IF interactive_reply.some THEN interactive_reply.v.title ELSE NoStr

IdIs(rid, lit) == rid.some /\ rid.v = lit

\* A variant of GreetingBranch that shows the menu and forgets to move on.
GreetingBranch_StaysGreeting(session) ==
  Outcome(session,
          ButtonRet(Plain("I'm here to assist you. Please choose an option:"),
                    menu_buttons, NoId),
          <<>>)

\* A variant of GreetingBranch that words the menu differently for a session
\* that was created before this request's time.
GreetingBranch_ByAge(session) ==
  Outcome(SetState(session, "menu"),
          ButtonRet(Plain(IF session.last_interaction > session.created_at
                          THEN "Welcome back. Please choose an option:"
                          ELSE "I'm here to assist you. Please choose an option:"),
                    menu_buttons, NoId),
          <<>>)

\* state == "greeting"
GreetingBranch(session) ==
  Outcome(SetState(session, "menu"),
          ButtonRet(Plain("I'm here to assist you. Please choose an option:"),
                    menu_buttons, NoId),
          <<>>)

\* state == "menu", reply_id == 'menu_product_info'
MenuProductInfo(session) ==
  Outcome(SetState(session, "product_info_list"),
          ListRet("Product Catalog", "Select a product to learn more.",
                  "View Products", product_sections),
          <<>>)

\* state == "menu", reply_id == 'menu_support'
MenuSupport(session) ==
  Outcome(SetState(session, "support_request"),
          TextRet(Plain("Please describe the issue you're experiencing.")),
          <<>>)

\* A variant of MenuOrder that goes to the quantity question of the catalog flow.
MenuOrder_ToQuantity(session) ==
  Outcome(SetState(session, "order_quantity"),
          TextRet(Plain("Which product would you like to order and the quantity? (e.g., 'Model A 2')")),
          <<>>)

\* state == "menu", reply_id == 'menu_order'
MenuOrder(session) ==
  Outcome(SetState(session, "order_start"),
          TextRet(Plain("Which product would you like to order and the quantity? (e.g., 'Model A 2')")),
          <<>>)

\* state == "menu", reply_id == 'menu_contact'
MenuContact(session) ==
  Outcome(SetState(session, "contact_sent"),
          ContactRet("Support Team", "15551234567", SomeId("Support")),
          <<>>)

\* A variant of MenuInvalid that starts over, as the product list does.
MenuInvalid_Resets(session) ==
  Outcome(SetState(session, "greeting"),
          ButtonRet(Plain("Invalid selection. Please choose an option:"),
                    menu_buttons, NoId),
          <<>>)

\* state == "menu", any other input: the menu again
MenuInvalid(session) ==
  Outcome(session,
          ButtonRet(Plain("Invalid selection. Please choose an option:"),
                    menu_buttons, NoId),
          <<>>)

\* state == "menu"
MenuBranch(session, reply_id) ==
  IF IdIs(reply_id, "menu_product_info") THEN MenuProductInfo(session)
  ELSE IF IdIs(reply_id, "menu_support") THEN MenuSupport(session)
  ELSE IF IdIs(reply_id, "menu_order") THEN MenuOrder(session)
  ELSE IF IdIs(reply_id, "menu_contact") THEN MenuContact(session)
  ELSE MenuInvalid(session)

\* A variant of ProductInfoListBranch that asks again, in the same state, when
\* the reply id is not in the catalog.
ProductInfoListBranch_Reprompts(session, reply_id, reply_title) ==
  IF reply_id.some /\ reply_id.v \in DOMAIN products THEN
    Outcome(SetState(SetCtx(SetCtx(session, "product_interest", reply_id.v),
                            "product_interest_title", reply_title),
                     "product_followup"),
            ButtonRet(Body("{product_desc}\n\nWould you like to place an order for {reply_title}?",
                           products[reply_id.v], FmtStr(reply_title), NoInt),
                      followup_buttons, NoId),
            <<>>)
  ELSE
    Outcome(session,
            TextRet(Plain("Sorry, I didn't understand that selection. Let's start over.")),
            <<>>)

\* state == "product_info_list"
ProductInfoListBranch(session, reply_id, reply_title) ==
  IF reply_id.some /\ reply_id.v \in DOMAIN products THEN
    Outcome(SetState(SetCtx(SetCtx(session, "product_interest", reply_id.v),
                            "product_interest_title", reply_title),
                     "product_followup"),
            ButtonRet(Body("{product_desc}\n\nWould you like to place an order for {reply_title}?",
                           products[reply_id.v], FmtStr(reply_title), NoInt),
                      followup_buttons, NoId),
            <<>>)
  ELSE
    Outcome(SetState(session, "greeting"),
            TextRet(Plain("Sorry, I didn't understand that selection. Let's start over.")),
            <<>>)

\* context.get("product_interest_title", "the selected product"), formatted
TitleOrSelected(context) ==
  IF "product_interest_title" \in DOMAIN context
  THEN FmtStr(context["product_interest_title"])
  ELSE TheSelectedProduct

\* A variant of ProductFollowupBranch that starts over on a reply other than
\* the two buttons.
ProductFollowupBranch_StartsOver(session, reply_id) ==
  IF IdIs(reply_id, "prod_order_yes") THEN
    Outcome(SetState(session, "order_quantity"),
            TextRet(Body("Great! How many units of {product_name} would you like?",
                         "", TitleOrSelected(session.context), NoInt)),
            <<>>)
  ELSE IF IdIs(reply_id, "prod_order_no") THEN
    Outcome(SetState(session, "menu"),
            ButtonRet(Plain("Okay. How else can I help you?"), menu_buttons, NoId),
            <<>>)
  ELSE
    Outcome(SetState(session, "greeting"),
            ButtonRet(Plain("Please choose 'Place Order' or 'Back to Menu'."),
                      followup_buttons, NoId),
            <<>>)

\* state == "product_followup"
ProductFollowupBranch(session, reply_id) ==
  IF IdIs(reply_id, "prod_order_yes") THEN
    Outcome(SetState(session, "order_quantity"),
            TextRet(Body("Great! How many units of {product_name} would you like?",
                         "", TitleOrSelected(session.context), NoInt)),
            <<>>)
  ELSE IF IdIs(reply_id, "prod_order_no") THEN
    Outcome(SetState(session, "menu"),
            ButtonRet(Plain("Okay. How else can I help you?"), menu_buttons, NoId),
            <<>>)
  ELSE
    Outcome(session,
            ButtonRet(Plain("Please choose 'Place Order' or 'Back to Menu'."),
                      followup_buttons, NoId),
            <<>>)

\* A variant of SupportRequestBranch that acknowledges without storing the text.
SupportRequestBranch_NoStore(session, message_text) ==
  IF Truthy(message_text) THEN
    Outcome(SetState(session, "support_processing"),
            TextRet(Plain("Thank you. Our support team has received your request and will review the issue. We'll get back to you soon.")),
            <<>>)
  ELSE
    Outcome(session, TextRet(Plain("Please describe the issue you are facing.")), <<>>)

\* state == "support_request"
SupportRequestBranch(session, message_text) ==
  IF Truthy(message_text) THEN
    Outcome(SetState(SetCtx(session, "support_issue", message_text.v),
                     "support_processing"),
            TextRet(Plain("Thank you. Our support team has received your request and will review the issue. We'll get back to you soon.")),
            <<>>)
  ELSE
    Outcome(session, TextRet(Plain("Please describe the issue you are facing.")), <<>>)

\* A variant of ParseOrder that keeps the whole text as the product name.
ParseOrder_WholeText(text) ==
  LET parts == Split(text) IN
  IF parts = <<>> THEN [quantity |-> NoInt, product_name |-> NoStr]
  ELSE IF IsDigit(parts[Len(parts)]) THEN
    IF IntOk(parts[Len(parts)])
    THEN [quantity |-> SomeInt(ToInt(parts[Len(parts)])),
          product_name |-> SomeStr(text)]
    ELSE [quantity |-> NoInt, product_name |-> NoStr]
  ELSE [quantity |-> NoInt, product_name |-> SomeStr(text)]

\* A variant of ParseOrder that assumes a quantity of 1 when the text does
\* not end in a number.
ParseOrder_DefaultOne(text) ==
  LET parts == Split(text) IN
  IF parts = <<>> THEN [quantity |-> NoInt, product_name |-> NoStr]
  ELSE IF IsDigit(parts[Len(parts)]) THEN
    IF IntOk(parts[Len(parts)])
    THEN [quantity |-> SomeInt(ToInt(parts[Len(parts)])),
          product_name |-> SomeStr(Join(SubSeq(parts, 1, Len(parts) - 1)))]
    ELSE [quantity |-> NoInt, product_name |-> NoStr]
  ELSE [quantity |-> SomeInt(1), product_name |-> SomeStr(text)]

\* The try block of the order_start branch: quantity and product_name after
\* it.  parts[-1] of an empty list raises IndexError and int() of a
\* non-decimal digit raises ValueError; the bare except swallows both and
\* leaves the two names at None.
ParseOrder(text) ==
  LET parts == Split(text) IN
  IF parts = <<>> THEN [quantity |-> NoInt, product_name |-> NoStr]
  ELSE IF IsDigit(parts[Len(parts)]) THEN
    IF IntOk(parts[Len(parts)])
    THEN [quantity |-> SomeInt(ToInt(parts[Len(parts)])),
          product_name |-> SomeStr(Join(SubSeq(parts, 1, Len(parts) - 1)))]
    ELSE [quantity |-> NoInt, product_name |-> NoStr]
  ELSE [quantity |-> NoInt, product_name |-> SomeStr(text)]

\* state == "order_start"
OrderStartBranch(session, message_text) ==
  IF Truthy(message_text) THEN
    LET p == ParseOrder(message_text.v) IN
    IF p.quantity.some /\ p.quantity.v # 0 /\ p.quantity.v > 0 /\ Truthy(p.product_name) THEN
      Outcome(SetState(SetCtx(SetCtx(session, "order_product", p.product_name.v),
                              "order_quantity", p.quantity.v),
                       "order_address"),
              TextRet(Body("Okay, {quantity} of {product_name}. Please provide your delivery address.",
                           "", p.product_name.v, p.quantity)),
              <<>>)
    ELSE
      Outcome(session,
              TextRet(Plain("Sorry, I couldn't understand that. Please provide the product name and quantity (e.g., 'Model B 3').")),
              <<>>)
  ELSE
    Outcome(session,
            TextRet(Plain("Please tell me the product and quantity you want to order.")),
            <<>>)

\* state == "order_quantity"
OrderQuantityBranch(session, message_text) ==
  IF Truthy(message_text) /\ IsDigit(message_text.v) THEN
    IF ~IntOk(message_text.v) THEN Raise(session)
    ELSE IF ToInt(message_text.v) > 0 THEN
      Outcome(SetState(SetCtx(session, "order_quantity", ToInt(message_text.v)),
                       "order_address"),
              TextRet(Body("Okay, {quantity} of {product_name}. Please provide your delivery address.",
                           "", TitleOrSelected(session.context),
                           SomeInt(ToInt(message_text.v)))),
              <<>>)
    ELSE Outcome(session, TextRet(Plain("Please enter a valid number for the quantity.")), <<>>)
  ELSE
    Outcome(session, TextRet(Plain("Please enter a valid number for the quantity.")), <<>>)

\* context.get("product_interest_title") or context.get("order_product", "Unknown Product")
OrderedProduct(context) ==
  IF "product_interest_title" \in DOMAIN context /\ Truthy(context["product_interest_title"])
  THEN context["product_interest_title"].v
  ELSE Get(context, "order_product", UnknownProduct)

\* context.get("order_quantity", "N/A")
OrderedQuantity(context) ==
  IF "order_quantity" \in DOMAIN context THEN SomeInt(context["order_quantity"]) ELSE NoInt

OrderKeys ==
  {"order_product", "order_quantity", "delivery_address",
   "product_interest", "product_interest_title"}

\* A variant of ClearOrderKeys without the pops of the two product_interest keys.
ClearOrderKeys_KeepsInterest(context) ==
  [k \in (DOMAIN context) \ {"order_product", "order_quantity", "delivery_address"}
     |-> context[k]]

ClearOrderKeys(context) == [k \in (DOMAIN context) \ OrderKeys |-> context[k]]

\* A variant of CompleteOrder that stops at session["conversation_state"] =
\* "order_complete", without the reset to "menu" that follows the pops.
CompleteOrder_NoReset(session, ctx) ==
  [session EXCEPT !.context = ClearOrderKeys(ctx),
                  !.conversation_state = "order_complete"]

\* A variant of CompleteOrder that clears the context and leaves the state
\* at "order_address".
CompleteOrder_StaysInAddress(session, ctx) ==
  [session EXCEPT !.context = ClearOrderKeys(ctx)]

\* The session after an order: the state goes to "order_complete", the
\* order keys are popped from the context, the state goes to "menu".
CompleteOrder(session, ctx) ==
  [session EXCEPT !.context = ClearOrderKeys(ctx),
                  !.conversation_state = "menu"]

\* state == "order_address"
OrderAddressBranch(session, sender_id, message_text) ==
  IF Truthy(message_text) THEN
    LET ctx == Put(session.context, "delivery_address", message_text.v)
        product == OrderedProduct(ctx)
        quantity == OrderedQuantity(ctx)
        address == Get(ctx, "delivery_address", <<"N/A">>)
    IN Outcome(CompleteOrder(session, ctx),
               ButtonRet(Body("Thank you! Your order for {quantity} x {product} has been placed.\n\nIs there anything else?",
                              "", product, quantity),
                         menu_buttons, SomeId("Order Confirmed!")),
               << [user |-> sender_id, product |-> product,
                   quantity |-> quantity, address |-> address] >>)
  ELSE
    Outcome(session, TextRet(Plain("Please provide the delivery address.")), <<>>)

\* A variant of FallbackBranch that answers and leaves the state as it is.
FallbackBranch_KeepsState(session) ==
  Outcome(session,
          TextRet(Plain("Sorry, something went wrong. Let's start over. How can I help?")),
          <<>>)

\* The fallback after the elif chain.
FallbackBranch(session) ==
  Outcome(SetState(session, "greeting"),
          TextRet(Plain("Sorry, something went wrong. Let's start over. How can I help?")),
          <<>>)

\* The elif chain of process_message on the local variable state (read at
\* line 211), acting on the session dict.
StateMachine(state, session, sender_id, message_text, interactive_reply) ==
  LET reply_id == reply_id_of(interactive_reply)
      reply_title == reply_title_of(interactive_reply)
  IN CASE state = "greeting" -> GreetingBranch(session)
       [] state = "menu" -> MenuBranch(session, reply_id)
       [] state = "product_info_list" -> ProductInfoListBranch(session, reply_id, reply_title)
       [] state = "product_followup" -> ProductFollowupBranch(session, reply_id)
       [] state = "support_request" -> SupportRequestBranch(session, message_text)
       [] state = "order_start" -> OrderStartBranch(session, message_text)
       [] state = "order_quantity" -> OrderQuantityBranch(session, message_text)
       [] state = "order_address" -> OrderAddressBranch(session, sender_id, message_text)
       [] OTHER -> FallbackBranch(session)

\* ------------------------------------------------------ payload helpers
create_text_payload(recipient_number, message_text) ==
  [clientWaNumber |-> recipient_number, messageType |-> "text",
   message |-> message_text]

create_contact_payload(recipient_number, formatted_name, phone_wa_id, prefix) ==
  [clientWaNumber |-> recipient_number, messageType |-> "contacts",
   formatted_name |-> formatted_name, phone |-> phone_wa_id, wa_id |-> phone_wa_id,
   prefix |-> IF prefix.some /\ prefix.v # "" THEN prefix ELSE NoId]

NoMedia == [some |-> FALSE, type |-> "", link |-> ""]

\* The header of a button message: the text header wins over the media one,
\* and a media header of an unknown type or without a link is left out.
ButtonHeader(header_text, header_media) ==
  IF header_text.some /\ header_text.v # ""
  THEN [type |-> "text", value |-> header_text.v]
  ELSE IF header_media.some /\ header_media.type \in {"image", "video", "document"}
          /\ header_media.link # ""
       THEN [type |-> header_media.type, value |-> header_media.link]
       ELSE [type |-> "none", value |-> ""]

create_button_payload(recipient_number, body_text, buttons, header_text, header_media) ==
  [clientWaNumber |-> recipient_number, messageType |-> "interactive",
   interactive |-> "button", body |-> body_text,
   buttons |-> [i \in 1..Len(buttons) |-> [type |-> "reply", reply |-> buttons[i]]],
   header |-> ButtonHeader(header_text, header_media)]

\* The inner loop of create_list_payload: the rows of one section whose id
\* was not seen before, in order, and the ids seen after it.
RECURSIVE ProcessRows(_, _, _)
ProcessRows(rows, all_row_ids, processed_rows) ==
  IF rows = <<>> THEN [rows |-> processed_rows, ids |-> all_row_ids]
  ELSE IF Head(rows).id \in all_row_ids
       THEN ProcessRows(Tail(rows), all_row_ids, processed_rows)
       ELSE ProcessRows(Tail(rows), all_row_ids \cup {Head(rows).id},
                        Append(processed_rows, Head(rows)))

\* A variant of ProcessSections whose set of seen ids starts empty in every
\* section.
RECURSIVE ProcessSections_PerSection(_, _, _)
ProcessSections_PerSection(sections, all_row_ids, processed_sections) ==
  IF sections = <<>> THEN processed_sections
  ELSE LET r == ProcessRows(Head(sections).rows, {}, <<>>) IN
       ProcessSections_PerSection(Tail(sections), r.ids,
                       IF r.rows # <<>>
                       THEN Append(processed_sections,
                                   [title |-> Head(sections).title, rows |-> r.rows])
                       ELSE processed_sections)

\* The outer loop: a section is kept only if it has a row left.
RECURSIVE ProcessSections(_, _, _)
ProcessSections(sections, all_row_ids, processed_sections) ==
  IF sections = <<>> THEN processed_sections
  ELSE LET r == ProcessRows(Head(sections).rows, all_row_ids, <<>>) IN
       ProcessSections(Tail(sections), r.ids,
                       IF r.rows # <<>>
                       THEN Append(processed_sections,
                                   [title |-> Head(sections).title, rows |-> r.rows])
                       ELSE processed_sections)

create_list_payload(recipient_number, header_text, body_text, button_text, sections) ==
  LET processed_sections == ProcessSections(sections, {}, <<>>) IN
  IF processed_sections = <<>>
  THEN create_text_payload(recipient_number,
                           Plain("Sorry, there was an error preparing the list."))
  ELSE [clientWaNumber |-> recipient_number, messageType |-> "interactive",
        interactive |-> "list", header |-> header_text, body |-> body_text,
        button |-> button_text, sections |-> processed_sections]

\* The payload the webhook builds from what process_message returned; the
\* empty sequence when there is none to send.
BuildPayload(sender_id, ret) ==
  CASE ret.type = "text" -> << create_text_payload(sender_id, ret.message_text) >>
    [] ret.type = "button" ->
         << create_button_payload(sender_id, ret.body_text, ret.buttons,
                                  ret.header_text, NoMedia) >>
    [] ret.type = "list" ->
         << create_list_payload(sender_id, ret.header_text, ret.body_text,
                                ret.button_text, ret.sections) >>
    [] ret.type = "contact" ->
         << create_contact_payload(sender_id, ret.formatted_name, ret.phone_wa_id,
                                   ret.prefix) >>
    [] ret.type = "none" -> <<>>
    [] OTHER -> << create_text_payload(sender_id, Plain("Sorry, an internal error occurred.")) >>

\* ------------------------------------------------------ inbound messages
Users == {"U1", "U2"}

NoReply == [some |-> FALSE, v |-> [id |-> NoId, title |-> NoStr, extra |-> FALSE]]
SomeReply(id, title) == [some |-> TRUE, v |-> [id |-> id, title |-> title, extra |-> FALSE]]
\* The dict {} as the reply object.
EmptyReply == [some |-> TRUE, v |-> [id |-> NoId, title |-> NoStr, extra |-> FALSE]]

\* A variant of ReplyTruthy that tests the reply object against None only.
ReplyTruthy_NotNone(r) == r.some

\* Python truthiness of the reply object: None and {} are falsy.
ReplyTruthy(r) == r.some /\ (r.v.id.some \/ r.v.title.some \/ r.v.extra)

\* One element of value.messages: 'from', 'type', text.body, interactive.type
\* and interactive[interactive.type].
TextMsg(from, body) ==
  [from |-> from, type |-> "text", body |-> body, itype |-> "", reply |-> NoReply]

InteractiveMsg(from, itype, reply) ==
  [from |-> from, type |-> "interactive", body |-> NoStr, itype |-> itype, reply |-> reply]

OtherMsg(from, type) ==
  [from |-> from, type |-> type, body |-> NoStr, itype |-> "", reply |-> NoReply]

ModelA == <<"M", "o", "d", "e", "l", " ", "A">>

Texts ==
  { <<>>,
    <<"h", "i">>,
    <<"1">>,
    ModelA \o <<" ", "2">>,
    <<"M", "o", "d", "e", "l", " ", " ", "A", " ", " ", "1", "2">>,
    <<"j", "u", "s", "t", " ", "s", "o", "m", "e", " ", "t", "e", "x", "t">>,
    ModelA \o <<" ", "0">>,
    ModelA \o <<" ", "-", "1">>,
    <<"0">>,
    <<"-", "1">>,
    <<"sup2">>,
    <<" ", " ">>,
    <<"2", "2", "1", "B", " ", "B", "a", "k", "e", "r", " ", "S", "t">> }

Replies ==
  { SomeReply(SomeId("menu_product_info"), NoStr),
    SomeReply(SomeId("menu_support"), NoStr),
    SomeReply(SomeId("menu_order"), NoStr),
    SomeReply(SomeId("menu_contact"), NoStr),
    SomeReply(SomeId("prod_A"), SomeStr(ModelA)),
    SomeReply(SomeId("prod_B"), NoStr),
    SomeReply(SomeId("prod_order_yes"), NoStr),
    SomeReply(SomeId("prod_order_no"), NoStr),
    SomeReply(SomeId("3"), NoStr),
    SomeReply(NoId, SomeStr(ModelA)),
    EmptyReply }

\* The messages a sender can be made to deliver.
MsgsOf(from) ==
  { TextMsg(from, SomeStr(t)) : t \in Texts }
  \cup { TextMsg(from, NoStr) }
  \cup { InteractiveMsg(from, IF r.v.id.some /\ r.v.id.v \in DOMAIN products
                                THEN "list_reply" ELSE "button_reply", r) : r \in Replies }
  \cup { InteractiveMsg(from, "list_reply", NoReply),
         InteractiveMsg(from, "nfm_reply", NoReply),
         OtherMsg(from, "image") }

\* ---------------------------------------------------------------- state
VARIABLES
  user_sessions,  \* the dict user_sessions: sender id -> index in heap, 0 if no key
  heap,           \* the session dicts ever created; a dict's index is its session_id
  clock,          \* what datetime.now() returns
  last,           \* the last webhook message handled and what handling it did
  thr,            \* the request threads of the concurrent runs: where each is in
                  \* process_message, and its local variables
  listcall        \* a call of create_list_payload on its own: argument and result

vars == <<user_sessions, heap, clock, last, thr, listcall>>

NoSession == [some |-> FALSE]
SomeSession(d) == [some |-> TRUE, v |-> d]

\* The session dict of a sender, if the dict user_sessions has the key.
Lookup(us, hp, u) == IF us[u] = 0 THEN NoSession ELSE SomeSession(hp[us[u]])
SessionOf(u) == Lookup(user_sessions, heap, u)

\* A variant of process_message that creates the session and goes on to
\* the state machine in the same call.
process_message_FallsThrough(us, hp, now, sender_id, message_text, interactive_reply) ==
  LET id == IF us[sender_id] = 0 THEN Len(hp) + 1 ELSE us[sender_id]
      hp1 == IF us[sender_id] = 0 THEN Append(hp, NewSession(id, now)) ELSE hp
      touched == [hp1[id] EXCEPT !.last_interaction = now]
      o == StateMachine(touched.conversation_state, touched, sender_id,
                        message_text, interactive_reply)
  IN [user_sessions |-> [us EXCEPT ![sender_id] = id],
      heap |-> [hp1 EXCEPT ![id] = o.session],
      ret |-> o.ret, log |-> o.log, raised |-> o.raised]

\* process_message: the store after the call, the value returned, the
\* orders logged, and whether an exception escaped.
\* A variant of process_message that keeps every session under one key of
\* user_sessions, whoever the sender is.
process_message_SingleKey(us, hp, now, sender_id, message_text, interactive_reply) ==
  IF us["U1"] = 0 THEN
    [user_sessions |-> [us EXCEPT !["U1"] = Len(hp) + 1],
     heap |-> Append(hp, NewSession(Len(hp) + 1, now)),
     ret |-> Welcome, log |-> <<>>, raised |-> FALSE]
  ELSE
    LET touched == [hp[us["U1"]] EXCEPT !.last_interaction = now]
        o == StateMachine(touched.conversation_state, touched, sender_id,
                          message_text, interactive_reply)
    IN [user_sessions |-> us,
        heap |-> [hp EXCEPT ![us["U1"]] = o.session],
        ret |-> o.ret, log |-> o.log, raised |-> o.raised]

process_message(us, hp, now, sender_id, message_text, interactive_reply) ==
  IF us[sender_id] = 0 THEN
    [user_sessions |-> [us EXCEPT ![sender_id] = Len(hp) + 1],
     heap |-> Append(hp, NewSession(Len(hp) + 1, now)),
     ret |-> Welcome, log |-> <<>>, raised |-> FALSE]
  ELSE
    LET touched == [hp[us[sender_id]] EXCEPT !.last_interaction = now]
        o == StateMachine(touched.conversation_state, touched, sender_id,
                          message_text, interactive_reply)
    IN [user_sessions |-> us,
        heap |-> [hp EXCEPT ![us[sender_id]] = o.session],
        ret |-> o.ret, log |-> o.log, raised |-> o.raised]

\* send_whatsapp_message: one POST to the provider, which succeeds or not.
send_whatsapp_message(payload, ok) ==
  IF ok THEN [status |-> "success"] ELSE [status |-> "error"]

\* What the webhook extracts from one message before the engine is called:
\* skip (no sender, unknown interactive type), default (a type other than text
\* and interactive: a fixed text is sent), error (the reply object is None and
\* its .get raises), or input (message_text and interactive_reply are set).
Extract(m) ==
  IF ~(m.from.some /\ m.from.v # "") THEN [kind |-> "skip", text |-> NoStr, reply |-> NoReply]
  ELSE IF m.type = "text" THEN [kind |-> "input", text |-> m.body, reply |-> NoReply]
  ELSE IF m.type = "interactive" THEN
    IF m.itype \in {"button_reply", "list_reply"} THEN
      IF m.reply.some THEN [kind |-> "input", text |-> NoStr, reply |-> m.reply]
      ELSE [kind |-> "error", text |-> NoStr, reply |-> NoReply]
    ELSE [kind |-> "skip", text |-> NoStr, reply |-> NoReply]
  ELSE [kind |-> "default", text |-> NoStr, reply |-> NoReply]

Record(m, forwarded, pre, ret, log, sent, transport, http) ==
  [msg |-> m, forwarded |-> forwarded, pre |-> pre, ret |-> ret, log |-> log,
   sent |-> sent, transport |-> transport, http |-> http, replay |-> FALSE,
   post |-> NoSession, resume |-> NoSession]

\* A variant of SendResponse that puts the store back to what it was before
\* process_message when the transport reports an error.
SendResponse_RollsBack(before, after, sent, ok) ==
  [store |-> IF sent # <<>> /\ ~ok THEN before ELSE after,
   calls |-> sent,
   status |-> IF sent = <<>> THEN "none" ELSE send_whatsapp_message(sent[1], ok).status]

\* if payload: send_whatsapp_message(payload).  The transport is called once
\* with the payload, its result is dropped, and the store stays as
\* process_message left it.
SendResponse(before, after, sent, ok) ==
  [store |-> after,
   calls |-> sent,
   status |-> IF sent = <<>> THEN "none" ELSE send_whatsapp_message(sent[1], ok).status]

\* The body of the webhook's loop for one message of a POST, and the
\* response of the POST: the store afterwards and the record of the call.
HandleMessage(us, hp, now, m, ok) ==
  LET x == Extract(m)
      same(rec) == [user_sessions |-> us, heap |-> hp, last |-> rec]
  IN
  IF x.kind = "skip" THEN
    same(Record(m, FALSE, NoSession, NoRet, <<>>, <<>>, "none", 200))
  ELSE IF x.kind = "error" THEN
    same(Record(m, FALSE, NoSession, NoRet, <<>>, <<>>, "none", 500))
  ELSE IF x.kind = "default" THEN
    LET payload == create_text_payload(m.from.v,
                     Plain("Sorry, I can currently only understand text messages and interactive replies."))
    IN same(Record(m, FALSE, NoSession, NoRet, <<>>, <<payload>>,
                   send_whatsapp_message(payload, ok).status, 200))
  ELSE IF Truthy(x.text) \/ ReplyTruthy(x.reply) THEN
    LET r == process_message(us, hp, now, m.from.v, x.text, x.reply)
        pre == Lookup(us, hp, m.from.v)
        sent == IF r.raised THEN <<>> ELSE BuildPayload(m.from.v, r.ret)
        s == SendResponse([user_sessions |-> us, heap |-> hp],
                          [user_sessions |-> r.user_sessions, heap |-> r.heap],
                          sent, ok)
    IN [user_sessions |-> s.store.user_sessions, heap |-> s.store.heap,
        last |-> [Record(m, TRUE, pre, r.ret, r.log, s.calls, s.status,
                         IF r.raised THEN 500 ELSE 200)
                    EXCEPT !.post = Lookup(r.user_sessions, r.heap, m.from.v)]]
  ELSE
    same(Record(m, FALSE, NoSession, NoRet, <<>>, <<>>, "none", 200))

NoMsg == OtherMsg(NoId, "")

Threads == {"T1", "T2"}

\* A thread that is not in a request; the request's locals die with it.
IdleThread ==
  [pc |-> "idle", msg |-> NoMsg, now |-> 0, state |-> "", session |-> 0]

\* No call of create_list_payload on its own is under way.
NoListCall == [sections |-> <<>>, done |-> FALSE, payload |-> <<>>]

\* The module after import: user_sessions = {} and no request yet.
InitServer ==
  /\ user_sessions = [u \in Users |-> 0]
  /\ heap = <<>>
  /\ clock = 0
  /\ last = Record(NoMsg, FALSE, NoSession, NoRet, <<>>, <<>>, "none", 0)
  /\ thr = [t \in Threads |-> IdleThread]

Init ==
  /\ InitServer
  /\ listcall = NoListCall

\* Time passes.
Tick ==
  /\ clock < MaxClock
  /\ clock' = clock + 1
  /\ UNCHANGED <<user_sessions, heap, last, thr, listcall>>

\* POST /webhook carrying message m, handled from start to end.  The record
\* notes a replay (m is the message handled just before, which logged an
\* order) and a resumption (the sender's previous message reached
\* process_message and its response was not delivered: resume is the session
\* as process_message left it then).
Post(m, ok) ==
  LET h == HandleMessage(user_sessions, heap, clock, m, ok) IN
  /\ user_sessions' = h.user_sessions
  /\ heap' = h.heap
  /\ last' = [h.last EXCEPT
                !.replay = (last.log # <<>> /\ m = last.msg),
                !.resume = IF /\ h.last.forwarded
                              /\ last.forwarded
                              /\ last.transport = "error"
                              /\ last.msg.from = m.from
                           THEN last.post ELSE NoSession]
  /\ UNCHANGED <<clock, thr, listcall>>

\* The messages of the single-sender runs.
Msgs == MsgsOf(SomeId("U1")) \cup { TextMsg(NoId, SomeStr(<<"h", "i">>)) }

\* The provider accepts every POST and no time passes between requests.
Webhook == \E m \in Msgs : Post(m, TRUE)

Next == Webhook

Spec == Init /\ [][Next]_vars

\* -------------------------------------------------- failing transport
\* The messages of the runs in which the provider may refuse a POST.
SendMsgs ==
  { TextMsg(SomeId("U1"), SomeStr(<<"h", "i">>)),
    TextMsg(SomeId("U1"), SomeStr(<<"M", "o", "d", "e", "l", " ", "A", " ", "2">>)),
    TextMsg(SomeId("U1"), SomeStr(<<"2", "2", "1", "B", " ", "B", "a", "k", "e", "r", " ", "S", "t">>)),
    InteractiveMsg(SomeId("U1"), "button_reply", SomeReply(SomeId("menu_order"), NoStr)),
    InteractiveMsg(SomeId("U1"), "button_reply", SomeReply(SomeId("menu_support"), NoStr)),
    InteractiveMsg(SomeId("U1"), "button_reply", SomeReply(SomeId("menu_product_info"), NoStr)),
    InteractiveMsg(SomeId("U1"), "list_reply", SomeReply(SomeId("prod_A"), SomeStr(ModelA))),
    InteractiveMsg(SomeId("U1"), "button_reply", SomeReply(SomeId("prod_order_yes"), NoStr)),
    OtherMsg(SomeId("U1"), "image") }

\* requests.post succeeds or raises a RequestException.
WebhookSend == \E m \in SendMsgs : \E ok \in BOOLEAN : Post(m, ok)

SendNext == WebhookSend

SendSpec == Init /\ [][SendNext]_vars

\* ------------------------------------------------- concurrent requests
\* The server handles each POST on a thread of its own (app.run serves
\* threaded), and the threads share the dict user_sessions.  A thread's steps
\* are the places of process_message where it reads or writes the dict.

\* The messages of the concurrent runs: all reach process_message.
ConcMsgs ==
  { TextMsg(SomeId("U1"), SomeStr(ModelA \o <<" ", "2">>)),
    TextMsg(SomeId("U1"), SomeStr(<<"2", "2", "1", "B", " ", "B", "a", "k", "e", "r", " ", "S", "t">>)),
    InteractiveMsg(SomeId("U1"), "button_reply", SomeReply(SomeId("menu_order"), NoStr)) }

SenderOf(t) == thr[t].msg.from.v

\* The webhook extracts the input and calls process_message: now = datetime.now()
Receive(t, m) ==
  /\ thr[t].pc = "idle"
  /\ Extract(m).kind = "input"
  /\ Truthy(Extract(m).text) \/ ReplyTruthy(Extract(m).reply)
  /\ thr' = [thr EXCEPT ![t] = [IdleThread EXCEPT !.pc = "check", !.msg = m, !.now = clock]]
  /\ UNCHANGED <<user_sessions, heap, clock, last, listcall>>

\* if sender_id not in user_sessions
CheckSession(t) ==
  /\ thr[t].pc = "check"
  /\ thr' = [thr EXCEPT ![t].pc = IF user_sessions[SenderOf(t)] = 0 THEN "create" ELSE "touch"]
  /\ UNCHANGED <<user_sessions, heap, clock, last, listcall>>

\* user_sessions[sender_id] = {...}; return the greeting
CreateSession(t) ==
  /\ thr[t].pc = "create"
  /\ heap' = Append(heap, NewSession(Len(heap) + 1, thr[t].now))
  /\ user_sessions' = [user_sessions EXCEPT ![SenderOf(t)] = Len(heap) + 1]
  /\ thr' = [thr EXCEPT ![t] = IdleThread]
  /\ UNCHANGED <<clock, last, listcall>>

\* user_sessions[sender_id]["last_interaction"] = now
TouchSession(t) ==
  /\ thr[t].pc = "touch"
  /\ heap' = [heap EXCEPT ![user_sessions[SenderOf(t)]].last_interaction = thr[t].now]
  /\ thr' = [thr EXCEPT ![t].pc = "read"]
  /\ UNCHANGED <<user_sessions, clock, last, listcall>>

\* session = user_sessions[sender_id]; state = session["conversation_state"]
ReadState(t) ==
  /\ thr[t].pc = "read"
  /\ thr' = [thr EXCEPT ![t].pc = "branch",
                        ![t].session = user_sessions[SenderOf(t)],
                        ![t].state = heap[user_sessions[SenderOf(t)]].conversation_state]
  /\ UNCHANGED <<user_sessions, heap, clock, last, listcall>>

\* The elif chain on the state read, writing the session dict read.
RunBranch(t) ==
  /\ thr[t].pc = "branch"
  /\ LET x == Extract(thr[t].msg)
         o == StateMachine(thr[t].state, heap[thr[t].session], SenderOf(t), x.text, x.reply)
     IN /\ heap' = [heap EXCEPT ![thr[t].session] = o.session]
        /\ thr' = [thr EXCEPT ![t] = IdleThread]
  /\ UNCHANGED <<user_sessions, clock, last, listcall>>

ThreadStep(t) ==
  \/ \E m \in ConcMsgs : Receive(t, m)
  \/ CheckSession(t)
  \/ CreateSession(t)
  \/ TouchSession(t)
  \/ ReadState(t)
  \/ RunBranch(t)

ConcNext == (\E t \in Threads : ThreadStep(t)) \/ Tick

ConcSpec == Init /\ [][ConcNext]_vars

\* ------------------------------------------------------- two senders
\* The messages of the runs with two senders: each can greet, choose to
\* order, name product and quantity, and give an address.
PairMsgsOf(from) ==
  { TextMsg(from, SomeStr(<<"h", "i">>)),
    InteractiveMsg(from, "button_reply", SomeReply(SomeId("menu_order"), NoStr)),
    TextMsg(from, SomeStr(ModelA \o <<" ", "2">>)),
    TextMsg(from, SomeStr(<<"2", "2", "1", "B", " ", "B", "a", "k", "e", "r", " ", "S", "t">>)) }

PairMsgs == PairMsgsOf(SomeId("U1")) \cup PairMsgsOf(SomeId("U2"))

\* POSTs of the two senders arrive in any order, and time passes between them.
WebhookPair == \E m \in PairMsgs : Post(m, TRUE)

PairNext == WebhookPair \/ Tick

PairSpec == Init /\ [][PairNext]_vars

\* ------------------------------------------- catalog, then free text
\* The messages of the runs in which a sender looks at the catalog, goes
\* back to the menu and orders by free text (or orders from the catalog).
ModelB == <<"M", "o", "d", "e", "l", " ", "B">>

MixedMsgs ==
  { TextMsg(SomeId("U1"), SomeStr(<<"h", "i">>)),
    InteractiveMsg(SomeId("U1"), "button_reply", SomeReply(SomeId("menu_product_info"), NoStr)),
    InteractiveMsg(SomeId("U1"), "list_reply", SomeReply(SomeId("prod_A"), SomeStr(ModelA))),
    InteractiveMsg(SomeId("U1"), "list_reply", SomeReply(SomeId("prod_B"), SomeStr(ModelB))),
    InteractiveMsg(SomeId("U1"), "button_reply", SomeReply(SomeId("prod_order_yes"), NoStr)),
    InteractiveMsg(SomeId("U1"), "button_reply", SomeReply(SomeId("prod_order_no"), NoStr)),
    InteractiveMsg(SomeId("U1"), "button_reply", SomeReply(SomeId("menu_order"), NoStr)),
    TextMsg(SomeId("U1"), SomeStr(ModelA \o <<" ", "2">>)),
    TextMsg(SomeId("U1"), SomeStr(<<"1">>)),
    TextMsg(SomeId("U1"), SomeStr(<<"2", "2", "1", "B", " ", "B", "a", "k", "e", "r", " ", "S", "t">>)) }

WebhookMixed == \E m \in MixedMsgs : Post(m, TRUE)

MixedNext == WebhookMixed

MixedSpec == Init /\ [][MixedNext]_vars

\* ------------------------------------------------- list construction
\* create_list_payload on its own: the sections argument is any list of at
\* most MaxSections sections with at most MaxRows rows each, the row ids
\* drawn from RowIds.  A row carries the place it has in the argument.
MaxSections == 2
MaxRows == 2

RowIds == {"row1", "row2"}

RowIdLists == UNION { [1..n -> RowIds] : n \in 0..MaxRows }

SectionIdLists == UNION { [1..k -> RowIdLists] : k \in 0..MaxSections }

SectionsOf(ids) ==
  [s \in 1..Len(ids) |->
     [title |-> "Section",
      rows |-> [r \in 1..Len(ids[s]) |->
                  [id |-> ids[s][r], title |-> "Row", pos |-> <<s, r>>]]]]

SectionLists == { SectionsOf(ids) : ids \in SectionIdLists }

ListInit ==
  /\ InitServer
  /\ listcall \in { [sections |-> s, done |-> FALSE, payload |-> <<>>] :
                       s \in SectionLists }

\* create_list_payload(recipient_number, header_text, body_text, button_text, sections)
BuildList ==
  /\ ~listcall.done
  /\ listcall' = [listcall EXCEPT
                    !.done = TRUE,
                    !.payload = << create_list_payload("U1", "Header", "Body", "Button",
                                                       listcall.sections) >>]
  /\ UNCHANGED <<user_sessions, heap, clock, last, thr>>

ListNext == BuildList

ListSpec == ListInit /\ [][ListNext]_vars

\* ================================================================ claims
\* The sender of the last message handled, its session now, and what the
\* engine was given.
LastSender == last.msg.from.v
After == SessionOf(LastSender)
LastText == Extract(last.msg).text
LastReplyId == reply_id_of(Extract(last.msg).reply)

\* The last message reached process_message and found the session in state st.
PreIs(st) ==
  last.forwarded /\ last.pre.some /\ last.pre.v.conversation_state = st

\* The last message reached process_message and found no session.
FirstContact == last.forwarded /\ ~last.pre.some

\* State and context of the session are what they were before the message.
SessionKept ==
  /\ After.v.conversation_state = last.pre.v.conversation_state
  /\ After.v.context = last.pre.v.context

ButtonIds(buttons) == [i \in 1..Len(buttons) |-> buttons[i].id]

DefinedStates ==
  {"greeting", "menu", "product_info_list", "product_followup",
   "support_request", "order_start", "order_quantity", "order_address"}

\* C1 as stated: every session's conversation state is one of the eight
\* states the state machine has a branch for.
C1_OnlyDefinedStates ==
  \A u \in Users :
    SessionOf(u).some => SessionOf(u).v.conversation_state \in DefinedStates

\* C1 amended: after every handled event, every session's conversation state
\* is one of the eight states with a branch or one of the two finished
\* states, support_processing and contact_sent.
C1_OnlyAssignedStates ==
  \A u \in Users :
    SessionOf(u).some =>
      SessionOf(u).v.conversation_state
        \in DefinedStates \cup {"support_processing", "contact_sent"}

\* C1 witness: a support description has just left the session in
\* support_processing.
C1_Witness ==
  /\ PreIs("support_request")
  /\ After.v.conversation_state = "support_processing"

\* C4: the first event of a sender with no session creates a session in state
\* greeting with an empty context, and the answer is the welcome text.
C4_FirstEventCreatesGreeting ==
  FirstContact =>
    /\ After.some
    /\ After.v.conversation_state = "greeting"
    /\ After.v.context = EmptyDict
    /\ last.ret = Welcome
    /\ last.sent = << create_text_payload(LastSender, Welcome.message_text) >>

\* C4 witness: the first event was an interactive reply and made the session.
C4_Witness ==
  /\ FirstContact
  /\ last.msg.type = "interactive"
  /\ After.some
  /\ last.ret.type = "text"

Hi == TextMsg(SomeId("U1"), SomeStr(<<"h", "i">>))

\* C5 as stated: the single event text("hi") of a new sender leaves the
\* session in state menu and is answered by a button menu of three options.
C5_HiReachesMenu ==
  (FirstContact /\ last.msg = Hi) =>
    /\ After.some
    /\ After.v.conversation_state = "menu"
    /\ last.ret.type = "button"
    /\ Len(last.ret.buttons) = 3

\* C5 amended: text("hi") of a new sender creates the session in state
\* greeting and is answered by the welcome text; the same text sent again to
\* that fresh session moves it to menu and is answered by a button menu of
\* four options.
C5_HiGreetsThenMenu ==
  /\ (FirstContact /\ last.msg = Hi) =>
       /\ After.some
       /\ After.v.conversation_state = "greeting"
       /\ last.ret = Welcome
  /\ (PreIs("greeting") /\ last.pre.v.context = EmptyDict /\ last.msg = Hi) =>
       /\ After.v.conversation_state = "menu"
       /\ last.ret.type = "button"
       /\ Len(last.ret.buttons) = 4

\* C5 witness: the second "hi" has moved the fresh session to the menu.
C5_Witness ==
  /\ PreIs("greeting")
  /\ last.pre.v.context = EmptyDict
  /\ last.msg = Hi
  /\ After.v.conversation_state = "menu"

\* C6 as stated: in greeting every event moves to menu with the three
\* options product info, support, order, and leaves the context alone.
C6_GreetingThreeOptions ==
  PreIs("greeting") =>
    /\ After.v.conversation_state = "menu"
    /\ After.v.context = last.pre.v.context
    /\ last.ret.type = "button"
    /\ ButtonIds(last.ret.buttons) = <<"menu_product_info", "menu_support", "menu_order">>

\* C6 amended: in greeting every event moves to menu with the four options
\* product info, support, order and contact card, and leaves the context alone.
C6_GreetingFourOptions ==
  PreIs("greeting") =>
    /\ After.v.conversation_state = "menu"
    /\ After.v.context = last.pre.v.context
    /\ last.ret.type = "button"
    /\ ButtonIds(last.ret.buttons)
         = <<"menu_product_info", "menu_support", "menu_order", "menu_contact">>
    /\ last.sent = << create_button_payload(LastSender, last.ret.body_text,
                                            menu_buttons, NoId, NoMedia) >>

\* C6 witness: a session sent back to greeting with a support issue in its
\* context is moved to the menu by an interactive reply.
C6_Witness ==
  /\ PreIs("greeting")
  /\ "support_issue" \in DOMAIN last.pre.v.context
  /\ last.msg.type = "interactive"
  /\ After.v.conversation_state = "menu"

\* C7: in menu the product-info reply leads to product_info_list with the
\* catalog list, the support reply to support_request with a text, and the
\* order reply to order_start with the text asking product and quantity.
C7_MenuChoices ==
  PreIs("menu") =>
    /\ IdIs(LastReplyId, "menu_product_info") =>
         /\ After.v.conversation_state = "product_info_list"
         /\ last.ret.type = "list"
         /\ last.ret.sections = product_sections
         /\ last.sent[1].interactive = "list"
    /\ IdIs(LastReplyId, "menu_support") =>
         /\ After.v.conversation_state = "support_request"
         /\ last.ret.type = "text"
    /\ IdIs(LastReplyId, "menu_order") =>
         /\ After.v.conversation_state = "order_start"
         /\ last.ret = TextRet(Plain("Which product would you like to order and the quantity? (e.g., 'Model A 2')"))

\* C7 witness: the order reply has moved the session from menu to order_start.
C7_Witness ==
  /\ PreIs("menu")
  /\ IdIs(LastReplyId, "menu_order")
  /\ After.v.conversation_state = "order_start"

\* The menu again, with the "invalid selection" prefix.
InvalidMenuShown ==
  /\ last.ret.type = "button"
  /\ last.ret.body_text.msg = "Invalid selection. Please choose an option:"
  /\ last.ret.buttons = GreetingBranch(last.pre.v).ret.buttons

\* C8 as stated: in menu every event other than the product-info, support and
\* order replies keeps state and context and shows the menu again.
C8_OtherInputStaysInMenu ==
  (PreIs("menu")
   /\ ~(LastReplyId.some
        /\ LastReplyId.v \in {"menu_product_info", "menu_support", "menu_order"})) =>
    SessionKept /\ InvalidMenuShown

\* C8 amended: in menu every event other than the product-info, support,
\* order and contact-card replies keeps state and context and shows the
\* menu again with the "invalid selection" prefix.
C8_UnknownInputStaysInMenu ==
  (PreIs("menu")
   /\ ~(LastReplyId.some
        /\ LastReplyId.v \in {"menu_product_info", "menu_support", "menu_order",
                              "menu_contact"})) =>
    SessionKept /\ InvalidMenuShown

\* C8 witness: the text "1" has left the session in the menu.
C8_Witness ==
  /\ PreIs("menu")
  /\ LastText = SomeStr(<<"1">>)
  /\ After.v.conversation_state = "menu"
  /\ InvalidMenuShown

\* The text is a product name followed by a positive integer: its last
\* token is a decimal number above zero and tokens come before it.
IsProductAndQuantity(text) ==
  /\ Truthy(text)
  /\ LET parts == Split(text.v) IN
     /\ Len(parts) >= 2
     /\ \A i \in 1..Len(parts[Len(parts)]) : parts[Len(parts)][i] \in Digits
     /\ ToInt(parts[Len(parts)]) > 0

\* C9: in order_start a text that is a product name followed by a positive
\* integer moves to order_address and stores the joined name tokens as
\* order_product and the integer as order_quantity: "Model A 2" stores
\* "Model A" and 2.
C9_OrderStartStores ==
  (PreIs("order_start") /\ IsProductAndQuantity(LastText)) =>
    LET parts == Split(LastText.v) IN
    /\ After.v.conversation_state = "order_address"
    /\ After.v.context
         = Put(Put(last.pre.v.context, "order_product",
                   Join(SubSeq(parts, 1, Len(parts) - 1))),
               "order_quantity", ToInt(parts[Len(parts)]))
    /\ LastText.v = ModelA \o <<" ", "2">> =>
         /\ After.v.context["order_product"] = ModelA
         /\ After.v.context["order_quantity"] = 2
    /\ last.ret.type = "text"

\* C9 witness: "Model  A  12", typed with double blanks, was stored as
\* "Model A" and 12.
C9_Witness ==
  /\ PreIs("order_start")
  /\ LastText.v = <<"M", "o", "d", "e", "l", " ", " ", "A", " ", " ", "1", "2">>
  /\ After.v.conversation_state = "order_address"
  /\ After.v.context["order_product"] = ModelA
  /\ After.v.context["order_quantity"] = 12

\* C10: in order_start every event that is not a product name followed by a
\* positive integer keeps state and context and is answered by a text asking
\* again.
C10_OrderStartRejects ==
  (PreIs("order_start") /\ ~IsProductAndQuantity(LastText)) =>
    /\ SessionKept
    /\ After.v.conversation_state # "order_address"
    /\ last.ret.type = "text"
    /\ last.ret.message_text.msg
         \in {"Sorry, I couldn't understand that. Please provide the product name and quantity (e.g., 'Model B 3').",
              "Please tell me the product and quantity you want to order."}

\* C10 witness: "just some text" was answered by the text asking again.
C10_Witness ==
  /\ PreIs("order_start")
  /\ LastText = SomeStr(<<"j", "u", "s", "t", " ", "s", "o", "m", "e", " ", "t", "e", "x", "t">>)
  /\ After.v.conversation_state = "order_start"
  /\ last.ret.type = "text"

\* C2: a thread about to run its branch holds the state the session has now:
\* no other request of the sender changed it since the thread read it.
C2_BranchSeesCurrentState ==
  \A t \in Threads :
    thr[t].pc = "branch" =>
      thr[t].state = heap[user_sessions[SenderOf(t)]].conversation_state

\* C3: each sender with a session had one session dict created, so the
\* dicts ever created are as many as the senders that have one.
C3_OneSessionPerUser ==
  Len(heap) = Cardinality({u \in Users : user_sessions[u] # 0})

\* The text is a positive integer: decimal digits with a value above zero.
IsPositiveInteger(text) ==
  /\ Truthy(text)
  /\ \A i \in 1..Len(text.v) : text.v[i] \in Digits
  /\ ToInt(text.v) > 0

QuantityReprompt == TextRet(Plain("Please enter a valid number for the quantity."))

\* C11: in order_quantity the session moves to order_address and stores
\* order_quantity exactly when the text is a positive integer; every other
\* event keeps state and context and is answered by the text asking again.
C11_QuantityIffPositiveInteger ==
  PreIs("order_quantity") =>
    IF IsPositiveInteger(LastText)
    THEN /\ After.v.conversation_state = "order_address"
         /\ After.v.context
              = Put(last.pre.v.context, "order_quantity", ToInt(LastText.v))
    ELSE /\ SessionKept
         /\ last.ret = QuantityReprompt

Baker == <<"2", "2", "1", "B", " ", "B", "a", "k", "e", "r", " ", "S", "t">>

\* C12: in order_address a non-empty text moves the session to menu, is
\* answered by a button menu with the header "Order Confirmed!", and leaves
\* none of the five order keys in the context (the other keys stay).
C12_AddressCompletesOrder ==
  (PreIs("order_address") /\ Truthy(LastText)) =>
    /\ After.v.conversation_state = "menu"
    /\ last.ret.type = "button"
    /\ last.ret.header_text = SomeId("Order Confirmed!")
    /\ last.ret.buttons = menu_buttons
    /\ last.sent[1].header = [type |-> "text", value |-> "Order Confirmed!"]
    /\ DOMAIN After.v.context
         = (DOMAIN last.pre.v.context)
             \ {"order_product", "order_quantity", "delivery_address",
                "product_interest", "product_interest_title"}
    /\ \A k \in DOMAIN After.v.context : After.v.context[k] = last.pre.v.context[k]

\* C12 witness: "221B Baker St" completed an order of the catalog flow, whose
\* context held the selected title.
C12_Witness ==
  /\ PreIs("order_address")
  /\ LastText = SomeStr(Baker)
  /\ "product_interest_title" \in DOMAIN last.pre.v.context
  /\ After.v.conversation_state = "menu"
  /\ last.ret.type = "button"

OrderStates == {"order_start", "order_quantity", "order_address"}

\* C13: an "Order Placed" record is logged only by an event that found the
\* session in order_address, one record per event; the same event delivered
\* again right after it logs nothing and does not put the session in an
\* order state.
C13_OrderGuardedByState ==
  /\ last.log # <<>> =>
       /\ PreIs("order_address")
       /\ Len(last.log) = 1
       /\ After.v.conversation_state = "menu"
  /\ last.replay =>
       /\ last.log = <<>>
       /\ After.v.conversation_state \notin OrderStates

\* C13 witness: the address text was delivered again after the order it
\* completed, and found the session in menu.
C13_Witness ==
  /\ last.replay
  /\ PreIs("menu")
  /\ Truthy(LastText)
  /\ last.log = <<>>
  /\ After.v.conversation_state = "menu"

\* The session found by the last event holds a title stored by a catalog
\* selection.
HasStoredTitle ==
  /\ last.pre.some
  /\ "product_interest_title" \in DOMAIN last.pre.v.context

StoredTitle == FmtStr(last.pre.v.context["product_interest_title"])

\* C14: the title stored as product_interest_title is the product named by
\* the quantity prompt of product_followup, by the address prompt of
\* order_quantity, and by the confirmation and the order record of
\* order_address.
C14_StoredTitleReadBack ==
  HasStoredTitle =>
    /\ (PreIs("product_followup") /\ After.v.conversation_state = "order_quantity")
         => last.ret.message_text.product = StoredTitle
    /\ (PreIs("order_quantity") /\ After.v.conversation_state = "order_address")
         => last.ret.message_text.product = StoredTitle
    /\ (PreIs("order_address") /\ last.log # <<>>)
         => /\ last.ret.body_text.product = StoredTitle
            /\ last.log[1].product = StoredTitle

Catalog == {"prod_A", "prod_B", "prod_C"}

LastReplyTitle == reply_title_of(Extract(last.msg).reply)

InCatalog(reply_id) == reply_id.some /\ reply_id.v \in Catalog

\* C15: in product_info_list a reply whose id is in the catalog moves to
\* product_followup, stores the id as product_interest and the reply's title
\* as product_interest_title, and is answered by the place order / back
\* buttons; every other event moves to greeting with a text and leaves the
\* context as it was.
C15_ProductListChoice ==
  PreIs("product_info_list") =>
    IF InCatalog(LastReplyId)
    THEN /\ After.v.conversation_state = "product_followup"
         /\ After.v.context
              = Put(Put(last.pre.v.context, "product_interest", LastReplyId.v),
                    "product_interest_title", LastReplyTitle)
         /\ last.ret.type = "button"
         /\ ButtonIds(last.ret.buttons) = <<"prod_order_yes", "prod_order_no">>
    ELSE /\ After.v.conversation_state = "greeting"
         /\ last.ret.type = "text"
         /\ After.v.context = last.pre.v.context

\* C15 witness: "Model A" was selected from the catalog.
C15_Witness ==
  /\ PreIs("product_info_list")
  /\ LastReplyId = SomeId("prod_A")
  /\ After.v.conversation_state = "product_followup"
  /\ After.v.context["product_interest_title"] = SomeStr(ModelA)

\* C16: in product_followup the confirm reply moves to order_quantity with a
\* text asking the quantity, the decline reply moves to menu with the menu
\* buttons, and every other event keeps state and context and is answered by
\* the confirm / decline buttons.
C16_FollowupChoice ==
  PreIs("product_followup") =>
    IF IdIs(LastReplyId, "prod_order_yes")
    THEN /\ After.v.conversation_state = "order_quantity"
         /\ last.ret.type = "text"
         /\ last.ret.message_text.msg
              = "Great! How many units of {product_name} would you like?"
    ELSE IF IdIs(LastReplyId, "prod_order_no")
    THEN /\ After.v.conversation_state = "menu"
         /\ last.ret.type = "button"
         /\ last.ret.buttons = menu_buttons
    ELSE /\ SessionKept
         /\ last.ret.type = "button"
         /\ ButtonIds(last.ret.buttons) = <<"prod_order_yes", "prod_order_no">>

\* C16 witness: a text arrived in product_followup and the buttons were
\* shown again.
C16_Witness ==
  /\ PreIs("product_followup")
  /\ Truthy(LastText)
  /\ After.v.conversation_state = "product_followup"
  /\ last.ret.type = "button"

SupportAck ==
  TextRet(Plain("Thank you. Our support team has received your request and will review the issue. We'll get back to you soon."))

SupportReprompt == TextRet(Plain("Please describe the issue you are facing."))

\* C17: in support_request a non-empty text is stored as support_issue and
\* acknowledged by a text; an event without text keeps state and context
\* and is answered by the text asking for the issue.
C17_SupportRequest ==
  PreIs("support_request") =>
    IF Truthy(LastText)
    THEN /\ After.v.context = Put(last.pre.v.context, "support_issue", LastText.v)
         /\ last.ret = SupportAck
    ELSE /\ SessionKept
         /\ last.ret = SupportReprompt

\* C17 witness: a reply without text arrived in support_request and was
\* asked for the issue.
C17_Witness ==
  /\ PreIs("support_request")
  /\ ~Truthy(LastText)
  /\ last.ret = SupportReprompt
  /\ After.v.conversation_state = "support_request"

StartOver ==
  TextRet(Plain("Sorry, something went wrong. Let's start over. How can I help?"))

UnrecognizedState ==
  last.forwarded /\ last.pre.some /\ last.pre.v.conversation_state \notin DefinedStates

\* C18: an event that finds the session in a state outside the recognized
\* ones resets it to greeting and is answered by the generic text; the
\* request succeeds, one text message is sent, and the session stays the
\* same session with its context.
C18_UnrecognizedStateResets ==
  UnrecognizedState =>
    /\ After.some
    /\ After.v.conversation_state = "greeting"
    /\ After.v.session_id = last.pre.v.session_id
    /\ After.v.context = last.pre.v.context
    /\ last.ret = StartOver
    /\ last.http = 200
    /\ Len(last.sent) = 1
    /\ last.sent[1].messageType = "text"

\* C18 witness: an event found the session in support_processing.
C18_Witness ==
  /\ UnrecognizedState
  /\ last.pre.v.conversation_state = "support_processing"
  /\ After.v.conversation_state = "greeting"
  /\ last.ret = StartOver

\* The response of the last event was handed to the transport, which failed.
Undelivered == last.forwarded /\ last.transport = "error"

\* C19: when the transport fails, the request still succeeds, the session is
\* the one process_message left (the transition is not undone), the transport
\* was called once, and the sender's next event finds the session as that
\* transition left it.
C19_FailedSendKeepsTransition ==
  /\ Undelivered =>
       /\ After = last.post
       /\ Len(last.sent) = 1
       /\ last.http = 200
  /\ last.resume.some => last.pre = last.resume

\* C19 witness: an order text found the session in order_start, where the
\* undelivered response before it had left it; its own response was not
\* delivered either and the session went on to order_address.
C19_Witness ==
  /\ last.resume.some
  /\ last.pre = last.resume
  /\ last.pre.v.conversation_state = "order_start"
  /\ Undelivered
  /\ After.v.conversation_state = "order_address"
  /\ After # last.pre

\* The rows of a list of sections, as a set (a row carries its place).
AllRows(sections) ==
  UNION { { sections[s].rows[r] : r \in 1..Len(sections[s].rows) } :
          s \in 1..Len(sections) }

\* Place p comes before place q in the argument.
Before(p, q) == p[1] < q[1] \/ (p[1] = q[1] /\ p[2] < q[2])

\* The rows that are the first with their id.
FirstRows(sections) ==
  { row \in AllRows(sections) :
      \A other \in AllRows(sections) :
        other.id = row.id => ~Before(other.pos, row.pos) }

ListPayload == listcall.payload[1]

ListError ==
  create_text_payload("U1", Plain("Sorry, there was an error preparing the list."))

\* The rows of the sections are in the order of the argument, one input
\* section per output section.
InArgumentOrder(sections) ==
  /\ \A s \in 1..Len(sections) : \A i, j \in 1..Len(sections[s].rows) :
       i < j => /\ sections[s].rows[i].pos[1] = sections[s].rows[j].pos[1]
                /\ sections[s].rows[i].pos[2] < sections[s].rows[j].pos[2]
  /\ \A s, t \in 1..Len(sections) :
       s < t => sections[s].rows[1].pos[1] < sections[t].rows[1].pos[1]

\* C20: the list payload holds, in the order of the argument, exactly the
\* rows that are the first with their id; no section of it is empty and no
\* two of its rows share an id; when no row is left the result is the text
\* payload reporting the error.
C20_ListKeepsFirstRows ==
  listcall.done =>
    IF FirstRows(listcall.sections) = {}
    THEN ListPayload = ListError
    ELSE /\ ListPayload.messageType = "interactive"
         /\ ListPayload.interactive = "list"
         /\ \A s \in 1..Len(ListPayload.sections) : ListPayload.sections[s].rows # <<>>
         /\ AllRows(ListPayload.sections) = FirstRows(listcall.sections)
         /\ \A a, b \in AllRows(ListPayload.sections) : a.id = b.id => a = b
         /\ InArgumentOrder(ListPayload.sections)

\* C20 witness: the second section repeated ids of the first and held one new
\* id; the payload has two sections and the second holds that one row.
C20_Witness ==
  /\ listcall.done
  /\ Len(listcall.sections) = 2
  /\ Len(listcall.sections[1].rows) = 1
  /\ Len(listcall.sections[2].rows) = 2
  /\ listcall.sections[2].rows[1].id = listcall.sections[1].rows[1].id
  /\ ListPayload.messageType = "interactive"
  /\ Len(ListPayload.sections) = 2
  /\ Len(ListPayload.sections[2].rows) = 1
  /\ ListPayload.sections[2].rows[1].pos = <<2, 2>>

\* Message m carries neither a non-empty text nor an interactive reply.
CarriesNothing(m) ==
  /\ m.type = "text" => (~m.body.some \/ m.body.v = <<>>)
  /\ m.type = "interactive" => (~m.reply.some \/ m.reply = EmptyReply)

\* C21: a message that carries neither a non-empty text nor an interactive
\* reply is not forwarded to process_message, and handling it leaves the
\* sessions as they were: none is created, none is changed.
C21_NoInputNotForwarded ==
  [][ CarriesNothing(last'.msg) =>
        /\ ~last'.forwarded
        /\ user_sessions' = user_sessions
        /\ heap' = heap ]_vars

\* C21 witness: an empty text arrived for a sender whose session is in an
\* order state, and was not forwarded.
C21_Witness ==
  /\ last.msg.type = "text"
  /\ last.msg.from = SomeId("U1")
  /\ CarriesNothing(last.msg)
  /\ ~last.forwarded
  /\ After.some
  /\ After.v.conversation_state = "order_address"

\* The session user_sessions holds for u in a store, if any.
StoredSession(us, hp, u) == IF us[u] = 0 THEN NoSession ELSE SomeSession(hp[us[u]])

\* A session without its session_id (a fresh uuid4 in every run).
ApartFromId(s) ==
  IF s.some
  THEN [some |-> TRUE,
        v |-> [conversation_state |-> s.v.conversation_state,
               context |-> s.v.context,
               created_at |-> s.v.created_at,
               last_interaction |-> s.v.last_interaction]]
  ELSE NoSession

\* The store in which u is the only sender there has ever been.
AloneSessions(u) ==
  [v \in Users |-> IF v = u /\ user_sessions[u] # 0 THEN 1 ELSE 0]

AloneHeap(u) == IF user_sessions[u] = 0 THEN <<>> ELSE << heap[user_sessions[u]] >>

\* C22: a request of one sender leaves the session of every other sender as
\* it was, and leaves the sender's own session (apart from the session_id)
\* as the same request leaves it in a store that holds no other sender.
C22_UsersIndependent ==
  [][ (clock' = clock /\ last'.msg.from.some) =>
        LET u == last'.msg.from.v
            alone == HandleMessage(AloneSessions(u), AloneHeap(u), clock, last'.msg, TRUE)
        IN /\ \A other \in Users \ {u} :
                StoredSession(user_sessions', heap', other)
                  = StoredSession(user_sessions, heap, other)
           /\ ApartFromId(StoredSession(user_sessions', heap', u))
                = ApartFromId(StoredSession(alone.user_sessions, alone.heap, u)) ]_vars

\* C22 witness: U2 completed an order at a later time while U1's session,
\* created earlier, waits in order_start.
C22_Witness ==
  /\ last.msg.from = SomeId("U2")
  /\ PreIs("order_address")
  /\ last.log # <<>>
  /\ user_sessions["U1"] # 0
  /\ heap[user_sessions["U1"]].conversation_state = "order_start"
  /\ heap[user_sessions["U1"]].last_interaction < clock

\* A session dict reduced to its state and context: fixed session_id and
\* timestamps.
StateAndContextOnly(session) ==
  [session EXCEPT !.session_id = 0, !.created_at = 0, !.last_interaction = 0]

\* What the state machine gives for the state and context the last event
\* found and for its text and reply, whoever sent it and whenever.
Determined ==
  StateMachine(last.pre.v.conversation_state, StateAndContextOnly(last.pre.v),
               "U1", LastText, Extract(last.msg).reply)

\* C23: the state and the context after an event and the response to it are
\* determined by the state and context before it and by the event; the
\* session_id, the timestamps, the sender and the other sessions play no part.
C23_EngineDeterministic ==
  (last.forwarded /\ last.pre.some) =>
    /\ After.v.conversation_state = Determined.session.conversation_state
    /\ After.v.context = Determined.session.context
    /\ last.ret = Determined.ret

\* C23 witness: U2, whose session was the second created and is older than
\* the request, was shown the menu from greeting.
C23_Witness ==
  /\ last.msg.from = SomeId("U2")
  /\ PreIs("greeting")
  /\ last.pre.v.session_id = 2
  /\ last.pre.v.created_at < clock
  /\ After.v.conversation_state = "menu"
  /\ last.ret.type = "button"

\* The last event completed an order of the free-text flow: the context it
\* found in order_address holds the product name typed in order_start.
FreeTextOrderCompleted ==
  /\ PreIs("order_address")
  /\ last.log # <<>>
  /\ "order_product" \in DOMAIN last.pre.v.context

\* C24: an order completed through the free-text flow names, in the order
\* record and in the confirmation, the product typed in order_start,
\* whatever the session did before.
C24_FreeTextOrderNamesTypedProduct ==
  FreeTextOrderCompleted =>
    /\ last.log[1].product = last.pre.v.context["order_product"]
    /\ last.ret.body_text.product = last.pre.v.context["order_product"]

\* The sessions user_sessions holds.
StoredSessions == { heap[user_sessions[u]] : u \in { v \in Users : user_sessions[v] # 0 } }

\* C25: a session in order_address holds an order_quantity above zero and
\* holds order_product or product_interest_title; and no order is recorded
\* with the quantity "N/A" or the product "Unknown Product".
C25_OrderAddressHasOrder ==
  /\ \A s \in StoredSessions :
       s.conversation_state = "order_address" =>
         /\ "order_quantity" \in DOMAIN s.context
         /\ s.context["order_quantity"] > 0
         /\ \/ "order_product" \in DOMAIN s.context
            \/ "product_interest_title" \in DOMAIN s.context
  /\ last.log # <<>> =>
       /\ last.log[1].quantity.some
       /\ last.log[1].product # UnknownProduct
=============================================================================
